---- MODULE Spec2Model ----
(***************************************************************************)
(* Model of db2_compare.py: the comparison of the catalog metadata of two  *)
(* DB2 databases (baseline, modified) for tables, procedures, triggers and *)
(* functions, and the reports written for each kind.                       *)
(*                                                                         *)
(* Identifiers (schema, object and column names) are sequences of code     *)
(* points, so that key concatenation and sorted() are computed, not        *)
(* assumed.  Every other catalog value is tagged with its Python type:     *)
(* None, Str(s) or Num(n).                                                 *)
(***************************************************************************)
EXTENDS Integers, Sequences, FiniteSets, TLC

VARIABLES
    pc,             \* position of main()
    baseline_conn,  \* "none" (None), "open" or "closed"
    modified_conn,
    exc,            \* the exception propagating out of the last call, or "none"
    ran,            \* the compare_* methods main() has called so far
    kind,           \* the compare_* method whose locals are held below
    baseline_rows,  \* locals of the running compare_* method: the fetched rows,
    modified_rows,  \* the groupings, the three key sets
    baseline_dict,
    modified_dict,
    new_keys,
    dropped_keys,
    modified_keys,
    files,          \* the files the running compare_* method has opened for writing
    out             \* the lines it has written, <<file, line>>, in writing order

vars == <<pc, baseline_conn, modified_conn, exc, ran, kind, baseline_rows,
          modified_rows, baseline_dict,
          modified_dict, new_keys, dropped_keys, modified_keys, files, out>>

----------------------------------------------------------------------------
(* Bounds of the explored inputs *)

\* most columns of one table, and most same-named routines of one schema
MaxCols == 2
MaxOverloads == 2

----------------------------------------------------------------------------
(* Python values *)

None == <<"null">>
Str(s) == <<"str", s>>
Num(n) == <<"int", n>>

\* bool(v): None, '' and 0 are falsy
Truthy(v) == v # None /\ v # Str("") /\ v # Num(0)

\* str(v), as an f-string renders a value
Format(v) ==
    IF v = None THEN "None"
    ELSE IF v[1] = "int" THEN ToString(v[2])
    ELSE v[2]

\* PyNe with the NULL semantics of SQL: None differs from everything
PyNe_NullUnequal(a, b) == a # b \/ a = None \/ b = None

\* a != b
PyNe(a, b) == a # b

----------------------------------------------------------------------------
(* Strings of code points, their order, and sorted() *)

Dot == 46

RECURSIVE StrLess(_, _)
StrLess(a, b) ==
    IF a = <<>> THEN b # <<>>
    ELSE IF b = <<>> THEN FALSE
    ELSE IF Head(a) # Head(b) THEN Head(a) < Head(b)
    ELSE StrLess(Tail(a), Tail(b))

RECURSIVE sorted(_)
sorted(S) ==
    IF S = {} THEN <<>>
    ELSE LET m == CHOOSE x \in S : \A y \in S : x = y \/ StrLess(x, y)
         IN  <<m>> \o sorted(S \ {m})

RECURSIVE Concat(_)
Concat(ss) == IF ss = <<>> THEN <<>> ELSE Head(ss) \o Concat(Tail(ss))

\* the orders in which a set can be iterated
Perms(S) == {p \in [1..Cardinality(S) -> S] : \A i, j \in 1..Cardinality(S) : p[i] = p[j] => i = j}

----------------------------------------------------------------------------
(* The catalogs: schemas, objects, and the rows a catalog query returns *)

id_A == <<65>>
id_A_B == <<65, Dot, 66>>
id_B_C == <<66, Dot, 67>>
id_C == <<67>>
id_D == <<68>>
id_E == <<69>>
col_X == <<88>>
col_Y == <<89>>
col_Z == <<90>>

\* <<schema, name>> of the objects of a kind, in ORDER BY schema, name order
Objects ==
    << <<id_A, id_B_C>>, <<id_A, id_D>>, <<id_A, id_E>>, <<id_A_B, id_C>> >>
ObjectSet == {Objects[i] : i \in DOMAIN Objects}
RichObject == Objects[1]
ColNames == {col_X, col_Y, col_Z}

\* dictionary.items() with k.lower()
Lower(k) ==
    CASE k = "TABSCHEMA" -> "tabschema" [] k = "TABNAME" -> "tabname"
      [] k = "TYPE" -> "type" [] k = "CREATE_TIME" -> "create_time"
      [] k = "COLNAME" -> "colname" [] k = "TYPENAME" -> "typename"
      [] k = "LENGTH" -> "length" [] k = "SCALE" -> "scale"
      [] k = "NULLS" -> "nulls" [] k = "DEFAULT" -> "default"
      [] k = "COLNO" -> "colno" [] k = "IDENTITY" -> "identity"
      [] k = "GENERATED" -> "generated"
      [] k = "PROCSCHEMA" -> "procschema" [] k = "PROCNAME" -> "procname"
      [] k = "SPECIFICNAME" -> "specificname" [] k = "LANGUAGE" -> "language"
      [] k = "DETERMINISTIC" -> "deterministic" [] k = "NULLCALL" -> "nullcall"
      [] k = "ORIGIN" -> "origin" [] k = "REMARKS" -> "remarks"
      [] k = "ROUTINE_TEXT" -> "routine_text" [] k = "RESULT_SETS" -> "result_sets"
      [] k = "PARAM_COUNT" -> "param_count"
      [] k = "TRIGSCHEMA" -> "trigschema" [] k = "TRIGNAME" -> "trigname"
      [] k = "TRIGTIME" -> "trigtime" [] k = "TRIGEVENT" -> "trigevent"
      [] k = "GRANULARITY" -> "granularity" [] k = "VALID" -> "valid"
      [] k = "TRIGGER_TEXT" -> "trigger_text" [] k = "ENABLED" -> "enabled"
      [] k = "FUNCSCHEMA" -> "funcschema" [] k = "FUNCNAME" -> "funcname"
      [] k = "FUNCTION_TYPE" -> "function_type" [] k = "RETURN_TYPE" -> "return_type"
      [] k = "FUNCTION_TEXT" -> "function_text"

\* Db2Comparator._fetch_all on a statement that yields rows
fetch_all(rows) ==
    [i \in DOMAIN rows |->
        [k \in {Lower(u) : u \in DOMAIN rows[i]} |->
            rows[i][CHOOSE u \in DOMAIN rows[i] : Lower(u) = k]]]

----------------------------------------------------------------------------
(* Tables *)

BaseColumn(name) ==
    [COLNAME |-> Str(name), TYPENAME |-> Str("INTEGER"), LENGTH |-> Num(4),
     SCALE |-> Num(0), NULLS |-> Str("Y"), DEFAULT |-> None,
     IDENTITY |-> Str("N"), GENERATED |-> Str("")]

\* the column X after one ALTER
ColumnVariants ==
    { [BaseColumn(col_X) EXCEPT !.TYPENAME = Str("BIGINT")],
      [BaseColumn(col_X) EXCEPT !.LENGTH = Num(8)],
      [BaseColumn(col_X) EXCEPT !.LENGTH = None],
      [BaseColumn(col_X) EXCEPT !.SCALE = Num(2)],
      [BaseColumn(col_X) EXCEPT !.SCALE = None],
      [BaseColumn(col_X) EXCEPT !.NULLS = Str("N")],
      [BaseColumn(col_X) EXCEPT !.DEFAULT = Str("0")],
      [BaseColumn(col_X) EXCEPT !.IDENTITY = Str("Y")],
      [BaseColumn(col_X) EXCEPT !.GENERATED = Str("A")],
      [BaseColumn(col_X) EXCEPT !.GENERATED = Str("D")] }

BaseColumns == {BaseColumn(n) : n \in ColNames}
Columns == BaseColumns \cup ColumnVariants

\* column lists of one table: 1..MaxCols columns with distinct names
ColumnLists(cols) ==
    UNION { {l \in [1..n -> cols] : \A i, j \in 1..n : l[i].COLNAME = l[j].COLNAME => i = j}
            : n \in 1..MaxCols }

\* a database's objects: the first object takes any value of rich, each other
\* object a value of plain; <<>> is an object the database does not have
Databases(rich, plain) ==
    {[o \in ObjectSet |-> IF o = RichObject THEN l ELSE f[o]] :
        l \in rich, f \in [ObjectSet \ {RichObject} -> plain]}

BaselineTableDBs ==
    Databases({<<>>} \cup ColumnLists({BaseColumn(col_X), BaseColumn(col_Y)}),
              {<<>>, <<BaseColumn(col_X)>>})
ModifiedTableDBs ==
    Databases({<<>>} \cup ColumnLists(Columns), {<<>>, <<BaseColumn(col_X)>>})

\* the rows of table_query: SYSCAT.TABLES joined with SYSCAT.COLUMNS,
\* ORDER BY TABSCHEMA, TABNAME, COLNO
TableRows(db) ==
    Concat([o \in DOMAIN Objects |->
        [i \in DOMAIN db[Objects[o]] |->
            db[Objects[o]][i] @@
            [TABSCHEMA |-> Objects[o][1], TABNAME |-> Objects[o][2],
             TYPE |-> Str("T"), CREATE_TIME |-> Str("2024-01-01"), COLNO |-> Num(i - 1)]]])

\* what _fetch_all returns for the query on each connection
BaselineTableFetches == {fetch_all(TableRows(db)) : db \in BaselineTableDBs}
ModifiedTableFetches == {fetch_all(TableRows(db)) : db \in ModifiedTableDBs}

\* key = f"{table['tabschema']}.{table['tabname']}"
TableKey(table) == table["tabschema"] \o <<Dot>> \o table["tabname"]

RECURSIVE GroupByTableLoop(_, _)
GroupByTableLoop(result, tables) ==
    IF tables = <<>> THEN result
    ELSE LET table == Head(tables)
             key == TableKey(table)
             r1 == IF key \notin DOMAIN result THEN result @@ (key :> <<>>) ELSE result
         IN  GroupByTableLoop([r1 EXCEPT ![key] = Append(@, table)], Tail(tables))

\* group_by_table with every record put in front of the list of its key
group_by_table_Prepending(tables) ==
    GroupByTableLoop(<<>>, [i \in DOMAIN tables |-> tables[Len(tables) + 1 - i]])

\* Db2Comparator._group_by_table
group_by_table(tables) == GroupByTableLoop(<<>>, tables)

table_compare_keys ==
    <<"colname", "typename", "length", "scale", "nulls", "default", "identity", "generated">>

\* table_definitions_differ without the length test: zip() stops at the end of
\* the shorter list
table_definitions_differ_NoLengthTest(baseline_cols, modified_cols) ==
    \E i \in DOMAIN baseline_cols \cap DOMAIN modified_cols :
        \E k \in DOMAIN table_compare_keys :
            PyNe(baseline_cols[i][table_compare_keys[k]],
                 modified_cols[i][table_compare_keys[k]])

\* table_definitions_differ matching the columns by name, not by position
table_definitions_differ_ByName(baseline_cols, modified_cols) ==
    IF Len(baseline_cols) # Len(modified_cols) THEN TRUE
    ELSE \E i \in DOMAIN baseline_cols :
            \A j \in DOMAIN modified_cols :
                \E k \in DOMAIN table_compare_keys :
                    PyNe(baseline_cols[i][table_compare_keys[k]],
                         modified_cols[j][table_compare_keys[k]])

\* table_definitions_differ testing only for a longer modified list
table_definitions_differ_OneWay(baseline_cols, modified_cols) ==
    IF Len(baseline_cols) < Len(modified_cols) THEN TRUE
    ELSE \E i \in DOMAIN baseline_cols \cap DOMAIN modified_cols :
            \E k \in DOMAIN table_compare_keys :
                PyNe(baseline_cols[i][table_compare_keys[k]],
                     modified_cols[i][table_compare_keys[k]])

\* table_definitions_differ comparing the column names only
table_definitions_differ_NamesOnly(baseline_cols, modified_cols) ==
    IF Len(baseline_cols) # Len(modified_cols) THEN TRUE
    ELSE \E i \in DOMAIN baseline_cols :
            PyNe(baseline_cols[i]["colname"], modified_cols[i]["colname"])

\* Db2Comparator._table_definitions_differ
table_definitions_differ(baseline_cols, modified_cols) ==
    IF Len(baseline_cols) # Len(modified_cols) THEN TRUE
    ELSE \E i \in DOMAIN baseline_cols :
            \E k \in DOMAIN table_compare_keys :
                PyNe(baseline_cols[i][table_compare_keys[k]],
                     modified_cols[i][table_compare_keys[k]])

\* the list is only measured with len() and iterated through sorted(), so
\* the set of its elements stands for it
find_modified_tables(baseline, modified) ==
    {table \in DOMAIN baseline \cap DOMAIN modified :
        table_definitions_differ(baseline[table], modified[table])}

\* Db2Comparator._write_table_definition: one line per column; a column whose
\* length is None raises TypeError at `col['length'] > 0`, after the name and
\* the type were written
write_table_definition(columns) ==
    Concat([i \in DOMAIN columns |->
        LET col == columns[i] IN
        IF col["length"] = None
        THEN << <<"defhead", Format(col["colname"]), col["typename"]>>, <<"raise", "TypeError">> >>
        ELSE << <<"def", Format(col["colname"]), col["typename"],
                  IF col["length"][2] > 0 THEN col["length"] ELSE None,
                  IF col["length"][2] > 0 /\ col["scale"] # None /\ col["scale"][2] > 0
                      THEN col["scale"] ELSE None,
                  col["nulls"],
                  IF Truthy(col["default"]) THEN col["default"] ELSE None,
                  IF col["identity"] = Str("Y") THEN "GENERATED ALWAYS AS IDENTITY"
                  ELSE IF col["generated"] = Str("A") THEN "GENERATED ALWAYS"
                  ELSE IF col["generated"] = Str("D") THEN "GENERATED BY DEFAULT"
                  ELSE "">> >>])

\* {col['colname']: col for col in cols}: a later column replaces an earlier
\* one of the same name
ColsDict(cols) ==
    [n \in {Format(cols[i]["colname"]) : i \in DOMAIN cols} |->
        cols[CHOOSE i \in DOMAIN cols :
                /\ Format(cols[i]["colname"]) = n
                /\ \A j \in DOMAIN cols : Format(cols[j]["colname"]) = n => j <= i]]

\* the keys _write_table_differences_detail compares two columns of a name on
detail_compare_keys ==
    <<"typename", "length", "scale", "nulls", "default", "identity", "generated">>

\* changes of one common column: f"{key}: {b_col[key]} -> {m_col[key]}"
ColumnChanges(b_col, m_col) ==
    LET differing == SelectSeq(detail_compare_keys, LAMBDA key : PyNe(b_col[key], m_col[key]))
    IN  [i \in DOMAIN differing |->
            <<"change", differing[i], Format(b_col[differing[i]]), Format(m_col[differing[i]])>>]

\* the sets of column names _write_table_differences_detail iterates
AddedCols(baseline_cols, modified_cols) ==
    DOMAIN ColsDict(modified_cols) \ DOMAIN ColsDict(baseline_cols)
RemovedCols(baseline_cols, modified_cols) ==
    DOMAIN ColsDict(baseline_cols) \ DOMAIN ColsDict(modified_cols)
CommonCols(baseline_cols, modified_cols) ==
    DOMAIN ColsDict(baseline_cols) \cap DOMAIN ColsDict(modified_cols)

\* Db2Comparator._write_table_differences_detail; added_seq, removed_seq and
\* common_seq are the orders in which `for col in added_cols`, `for col in
\* removed_cols` and `for col in common_cols` iterate their sets
write_table_differences_detail(baseline_cols, modified_cols, added_seq, removed_seq, common_seq) ==
    LET baseline_cols_dict == ColsDict(baseline_cols)
        modified_cols_dict == ColsDict(modified_cols)
        modified_cols_list ==
            SelectSeq(common_seq,
                      LAMBDA col : ColumnChanges(baseline_cols_dict[col], modified_cols_dict[col]) # <<>>)
    IN  << <<"text", "Baseline columns">> >> \o write_table_definition(baseline_cols)
        \o << <<"text", "Modified columns">> >> \o write_table_definition(modified_cols)
        \o << <<"text", "Changes">> >>
        \o (IF added_seq # <<>> THEN << <<"text", "Added columns">> >> ELSE <<>>)
        \o [i \in DOMAIN added_seq |-> <<"+", added_seq[i]>>]
        \o (IF removed_seq # <<>> THEN << <<"text", "Removed columns">> >> ELSE <<>>)
        \o [i \in DOMAIN removed_seq |-> <<"-", removed_seq[i]>>]
        \o (IF modified_cols_list # <<>> THEN << <<"text", "Modified columns">> >> ELSE <<>>)
        \o Concat([i \in DOMAIN modified_cols_list |->
                << <<"*", modified_cols_list[i]>> >>
                \o ColumnChanges(baseline_cols_dict[modified_cols_list[i]],
                                 modified_cols_dict[modified_cols_list[i]])])

\* what _write_table_differences_detail can write: a set of strings is
\* iterated in an order that depends on the hash seed of the process
TableDetails(baseline_cols, modified_cols) ==
    {write_table_differences_detail(baseline_cols, modified_cols, a, r, c) :
        a \in Perms(AddedCols(baseline_cols, modified_cols)),
        r \in Perms(RemovedCols(baseline_cols, modified_cols)),
        c \in Perms(CommonCols(baseline_cols, modified_cols))}

\* the lines written before the first raise, and the exception raised
RECURSIVE Written(_)
Written(lines) ==
    IF lines = <<>> \/ Head(lines)[1] = "raise" THEN <<>>
    ELSE <<Head(lines)>> \o Written(Tail(lines))

Raised(lines) ==
    IF \E i \in DOMAIN lines : lines[i][1] = "raise"
    THEN lines[CHOOSE i \in DOMAIN lines :
                  lines[i][1] = "raise" /\ \A j \in 1..(i - 1) : lines[j][1] # "raise"][2]
    ELSE "none"

\* the "Modified Tables" loop of compare_tables over sorted(modified_tables):
\* every sequence of lines it can write
RECURSIVE ModifiedTableSections(_, _, _)
ModifiedTableSections(baseline, modified, modified_seq) ==
    IF modified_seq = <<>> THEN {<<>>}
    ELSE {<< <<"key", "modified", Head(modified_seq)>> >> \o detail \o rest :
            detail \in TableDetails(baseline[Head(modified_seq)], modified[Head(modified_seq)]),
            rest \in ModifiedTableSections(baseline, modified, Tail(modified_seq))}

\* the body of `with open(comparison_file, 'w')` in compare_tables: every
\* sequence of lines it can write, a raise included
TablesReports(baseline, modified, new_tables, dropped_tables, modified_tables) ==
    LET new_seq == sorted(new_tables)
        dropped_seq == sorted(dropped_tables)
        head ==
            << <<"text", "Table Comparison Summary">>,
               <<"count", "New tables", Cardinality(new_tables)>>,
               <<"count", "Dropped tables", Cardinality(dropped_tables)>>,
               <<"count", "Modified tables", Cardinality(modified_tables)>> >>
            \o (IF new_tables # {} THEN << <<"section", "new">> >> ELSE <<>>)
            \o Concat([i \in DOMAIN new_seq |->
                    << <<"key", "new", new_seq[i]>> >>
                    \o write_table_definition(modified[new_seq[i]])])
            \o (IF dropped_tables # {} THEN << <<"section", "dropped">> >> ELSE <<>>)
            \o Concat([i \in DOMAIN dropped_seq |->
                    << <<"key", "dropped", dropped_seq[i]>> >>
                    \o write_table_definition(baseline[dropped_seq[i]])])
            \o (IF modified_tables # {} THEN << <<"section", "modified">> >> ELSE <<>>)
    IN  {head \o sections :
            sections \in ModifiedTableSections(baseline, modified, sorted(modified_tables))}

\* the lines of one file, as <<file, line>> pairs
InFile(file, lines) == [i \in DOMAIN lines |-> <<file, lines[i]>>]

----------------------------------------------------------------------------
(* Procedures, triggers and functions: one record per key *)

\* sequences of 0..n of the given rows with distinct SPECIFICNAMEs (the
\* routines of one schema that share a name); a trigger has no SPECIFICNAME
\* and at most one row
Overloads(bodies, n) ==
    {<<>>} \cup
    UNION { {l \in [1..m -> bodies] :
                \A i, j \in 1..m : l[i].SPECIFICNAME = l[j].SPECIFICNAME => i = j}
            : m \in 1..n }

BaseProc ==
    [SPECIFICNAME |-> Str("SQL1"), LANGUAGE |-> Str("SQL"), DETERMINISTIC |-> Str("N"),
     NULLCALL |-> Str("Y"), ORIGIN |-> Str("Q"), CREATE_TIME |-> Str("2024-01-01"),
     REMARKS |-> None, ROUTINE_TEXT |-> Str("CREATE PROCEDURE v1"),
     RESULT_SETS |-> Num(0), PARAM_COUNT |-> Num(0)]

\* a procedure and an overload of it
BaseProcs ==
    { BaseProc,
      [BaseProc EXCEPT !.SPECIFICNAME = Str("SQL3"), !.PARAM_COUNT = Num(1)] }

ProcVariants ==
    { [BaseProc EXCEPT !.LANGUAGE = Str("C")],
      [BaseProc EXCEPT !.DETERMINISTIC = Str("Y")],
      [BaseProc EXCEPT !.NULLCALL = Str("N")],
      [BaseProc EXCEPT !.ROUTINE_TEXT = Str("CREATE PROCEDURE v2")],
      [BaseProc EXCEPT !.ROUTINE_TEXT = None],
      [BaseProc EXCEPT !.PARAM_COUNT = Num(1)],
      [BaseProc EXCEPT !.RESULT_SETS = Num(1)],
      [BaseProc EXCEPT !.SPECIFICNAME = Str("SQL2")],
      [BaseProc EXCEPT !.REMARKS = Str("note")],
      [BaseProc EXCEPT !.CREATE_TIME = Str("2024-06-01")] }

BaselineProcDBs ==
    Databases(Overloads(BaseProcs, MaxOverloads), {<<>>, <<BaseProc>>})
ModifiedProcDBs ==
    Databases(Overloads(BaseProcs \cup ProcVariants, MaxOverloads), {<<>>, <<BaseProc>>})

\* the rows of proc_query, ORDER BY PROCSCHEMA, PROCNAME
ProcRows(db) ==
    Concat([o \in DOMAIN Objects |->
        [i \in DOMAIN db[Objects[o]] |->
            db[Objects[o]][i] @@ [PROCSCHEMA |-> Objects[o][1], PROCNAME |-> Objects[o][2]]]])

\* what _fetch_all returns for the query on each connection
BaselineProcFetches == {fetch_all(ProcRows(db)) : db \in BaselineProcDBs}
ModifiedProcFetches == {fetch_all(ProcRows(db)) : db \in ModifiedProcDBs}

BaseTrigger ==
    [SPECIFICNAME |-> None, TABSCHEMA |-> Str(id_A), TABNAME |-> Str(id_D),
     TRIGTIME |-> Str("A"), TRIGEVENT |-> Str("I"), GRANULARITY |-> Str("R"),
     VALID |-> Str("Y"), CREATE_TIME |-> Str("2024-01-01"), REMARKS |-> None,
     TRIGGER_TEXT |-> Str("CREATE TRIGGER v1")] @@ ("ENABLED" :> Str("Y"))

TriggerVariants ==
    { [BaseTrigger EXCEPT !.TABSCHEMA = Str(id_A_B)],
      [BaseTrigger EXCEPT !.TABNAME = Str(id_C)],
      [BaseTrigger EXCEPT !.TRIGTIME = Str("B")],
      [BaseTrigger EXCEPT !.TRIGEVENT = Str("U")],
      [BaseTrigger EXCEPT !.GRANULARITY = Str("S")],
      [BaseTrigger EXCEPT !.VALID = Str("N")],
      [BaseTrigger EXCEPT !["ENABLED"] = Str("N")],
      [BaseTrigger EXCEPT !.TRIGGER_TEXT = Str("CREATE TRIGGER v2")],
      [BaseTrigger EXCEPT !.TRIGGER_TEXT = None],
      [BaseTrigger EXCEPT !.REMARKS = Str("note")],
      [BaseTrigger EXCEPT !.CREATE_TIME = Str("2024-06-01")] }

BaselineTriggerDBs ==
    Databases(Overloads({BaseTrigger}, 1), {<<>>, <<BaseTrigger>>})
ModifiedTriggerDBs ==
    Databases(Overloads({BaseTrigger} \cup TriggerVariants, 1), {<<>>, <<BaseTrigger>>})

\* the rows of trigger_query, ORDER BY TRIGSCHEMA, TRIGNAME
TriggerRows(db) ==
    Concat([o \in DOMAIN Objects |->
        [i \in DOMAIN db[Objects[o]] |->
            [k \in DOMAIN db[Objects[o]][i] \ {"SPECIFICNAME"} |-> db[Objects[o]][i][k]]
            @@ [TRIGSCHEMA |-> Objects[o][1], TRIGNAME |-> Objects[o][2]]]])

\* what _fetch_all returns for the query on each connection
BaselineTriggerFetches == {fetch_all(TriggerRows(db)) : db \in BaselineTriggerDBs}
ModifiedTriggerFetches == {fetch_all(TriggerRows(db)) : db \in ModifiedTriggerDBs}

BaseFunction ==
    [SPECIFICNAME |-> Str("SQL1"), ORIGIN |-> Str("Q"), FUNCTION_TYPE |-> Str("S"),
     RETURN_TYPE |-> Num(24), FUNCTION_TEXT |-> Str("CREATE FUNCTION v1"),
     DETERMINISTIC |-> Str("N"), NULLCALL |-> Str("Y"), LANGUAGE |-> Str("SQL"),
     CREATE_TIME |-> Str("2024-01-01"), REMARKS |-> None, PARAM_COUNT |-> Num(0)]

BaseFunctions ==
    { BaseFunction,
      [BaseFunction EXCEPT !.SPECIFICNAME = Str("SQL3"), !.PARAM_COUNT = Num(1)] }

FunctionVariants ==
    { [BaseFunction EXCEPT !.LANGUAGE = Str("C")],
      [BaseFunction EXCEPT !.DETERMINISTIC = Str("Y")],
      [BaseFunction EXCEPT !.NULLCALL = Str("N")],
      [BaseFunction EXCEPT !.FUNCTION_TEXT = Str("CREATE FUNCTION v2")],
      [BaseFunction EXCEPT !.FUNCTION_TEXT = None],
      [BaseFunction EXCEPT !.RETURN_TYPE = Num(20)],
      [BaseFunction EXCEPT !.PARAM_COUNT = Num(1)],
      [BaseFunction EXCEPT !.FUNCTION_TYPE = Str("T")],
      [BaseFunction EXCEPT !.SPECIFICNAME = Str("SQL2")],
      [BaseFunction EXCEPT !.REMARKS = Str("note")],
      [BaseFunction EXCEPT !.CREATE_TIME = Str("2024-06-01")] }

BaselineFunctionDBs ==
    Databases(Overloads(BaseFunctions, MaxOverloads), {<<>>, <<BaseFunction>>})
ModifiedFunctionDBs ==
    Databases(Overloads(BaseFunctions \cup FunctionVariants, MaxOverloads), {<<>>, <<BaseFunction>>})

\* the rows of function_query, ORDER BY FUNCSCHEMA, FUNCNAME
FunctionRows(db) ==
    Concat([o \in DOMAIN Objects |->
        [i \in DOMAIN db[Objects[o]] |->
            db[Objects[o]][i] @@ [FUNCSCHEMA |-> Objects[o][1], FUNCNAME |-> Objects[o][2]]]])

\* what _fetch_all returns for the query on each connection
BaselineFunctionFetches == {fetch_all(FunctionRows(db)) : db \in BaselineFunctionDBs}
ModifiedFunctionFetches == {fetch_all(FunctionRows(db)) : db \in ModifiedFunctionDBs}

\* key = f"{rec[schema]}.{rec[name]}"
ScalarKey(rec, schema, name) == rec[schema] \o <<Dot>> \o rec[name]

\* for rec in recs: result[key] = rec
RECURSIVE GroupScalarLoop(_, _, _, _)
GroupScalarLoop(result, recs, schema, name) ==
    IF recs = <<>> THEN result
    ELSE LET rec == Head(recs)
             key == ScalarKey(rec, schema, name)
             r1 == IF key \in DOMAIN result
                   THEN [result EXCEPT ![key] = rec]
                   ELSE result @@ (key :> rec)
         IN  GroupScalarLoop(r1, Tail(recs), schema, name)

group_by_proc(procs) == GroupScalarLoop(<<>>, procs, "procschema", "procname")
group_by_trigger(triggers) == GroupScalarLoop(<<>>, triggers, "trigschema", "trigname")
group_by_function(functions) == GroupScalarLoop(<<>>, functions, "funcschema", "funcname")

proc_compare_keys ==
    <<"language", "deterministic", "nullcall", "routine_text", "param_count", "result_sets">>
trigger_compare_keys ==
    <<"trigtime", "trigevent", "granularity", "valid", "enabled", "trigger_text",
      "tabschema", "tabname">>
function_compare_keys ==
    <<"language", "deterministic", "nullcall", "function_text", "return_type",
      "param_count", "function_type">>

\* DefinitionsDiffer comparing the two records whole
DefinitionsDiffer_WholeRecord(compare_keys, baseline_rec, modified_rec) ==
    baseline_rec # modified_rec

\* differences.append(...) for each key whose values differ; bool(differences)
DefinitionsDiffer(compare_keys, baseline_rec, modified_rec) ==
    LET differences == SelectSeq(compare_keys, LAMBDA key : PyNe(baseline_rec[key], modified_rec[key]))
    IN  differences # <<>>

proc_definitions_differ(baseline_proc, modified_proc) ==
    DefinitionsDiffer(proc_compare_keys, baseline_proc, modified_proc)
trigger_definitions_differ(baseline_trigger, modified_trigger) ==
    DefinitionsDiffer(trigger_compare_keys, baseline_trigger, modified_trigger)
function_definitions_differ(baseline_func, modified_func) ==
    DefinitionsDiffer(function_compare_keys, baseline_func, modified_func)

find_modified_procs(baseline, modified) ==
    {proc \in DOMAIN baseline \cap DOMAIN modified :
        proc_definitions_differ(baseline[proc], modified[proc])}
find_modified_triggers(baseline, modified) ==
    {trigger \in DOMAIN baseline \cap DOMAIN modified :
        trigger_definitions_differ(baseline[trigger], modified[trigger])}
find_modified_functions(baseline, modified) ==
    {func \in DOMAIN baseline \cap DOMAIN modified :
        function_definitions_differ(baseline[func], modified[func])}

\* the lines "  Label: {rec[field]}" of a definition
FieldLines(rec, fields) == [i \in DOMAIN fields |-> <<"field", fields[i], Format(rec[fields[i]])>>]

\* the tail shared by the three _write_*_definition methods
RemarksAndText(rec, text_key) ==
    (IF Truthy(rec["remarks"]) THEN << <<"field", "remarks", Format(rec["remarks"])>> >> ELSE <<>>)
    \o << <<"text", "Definition">> >>
    \o (IF Truthy(rec[text_key]) THEN << <<"body", Format(rec[text_key])>> >> ELSE <<>>)

write_proc_definition(proc) ==
    FieldLines(proc, <<"language", "deterministic", "nullcall", "param_count", "result_sets">>)
    \o RemarksAndText(proc, "routine_text")

write_trigger_definition(trigger) ==
    << <<"table", Format(trigger["tabschema"]) \o <<Dot>> \o Format(trigger["tabname"])>> >>
    \o FieldLines(trigger, <<"trigtime", "trigevent", "granularity", "valid", "enabled">>)
    \o RemarksAndText(trigger, "trigger_text")

write_function_definition(func) ==
    FieldLines(func, <<"function_type", "return_type", "language", "deterministic",
                       "nullcall", "param_count">>)
    \o RemarksAndText(func, "function_text")

\* ChangeLines with the definition text written as a From and a To line too
ChangeLines_InlineText(compare_keys, text_key, baseline_rec, modified_rec) ==
    LET differing == SelectSeq(compare_keys, LAMBDA key : PyNe(baseline_rec[key], modified_rec[key]))
    IN  Concat([i \in DOMAIN differing |->
            << <<"changed", differing[i]>>,
               <<"from", differing[i], Format(baseline_rec[differing[i]])>>,
               <<"to", differing[i], Format(modified_rec[differing[i]])>> >>])

\* the "Changes:" loop of the three _write_*_differences methods
ChangeLines(compare_keys, text_key, baseline_rec, modified_rec) ==
    LET differing == SelectSeq(compare_keys, LAMBDA key : PyNe(baseline_rec[key], modified_rec[key]))
    IN  Concat([i \in DOMAIN differing |->
            IF differing[i] = text_key
            THEN << <<"changed", differing[i]>>, <<"see", differing[i]>> >>
            ELSE << <<"changed", differing[i]>>,
                    <<"from", differing[i], Format(baseline_rec[differing[i]])>>,
                    <<"to", differing[i], Format(modified_rec[differing[i]])>> >>])

write_proc_differences(baseline_proc, modified_proc) ==
    << <<"text", "Baseline">> >> \o write_proc_definition(baseline_proc)
    \o << <<"text", "Modified">> >> \o write_proc_definition(modified_proc)
    \o << <<"text", "Changes">> >>
    \o ChangeLines(proc_compare_keys, "routine_text", baseline_proc, modified_proc)

write_trigger_differences(baseline_trigger, modified_trigger) ==
    << <<"text", "Baseline">> >> \o write_trigger_definition(baseline_trigger)
    \o << <<"text", "Modified">> >> \o write_trigger_definition(modified_trigger)
    \o << <<"text", "Changes">> >>
    \o ChangeLines(trigger_compare_keys, "trigger_text", baseline_trigger, modified_trigger)

write_function_differences(baseline_func, modified_func) ==
    << <<"text", "Baseline">> >> \o write_function_definition(baseline_func)
    \o << <<"text", "Modified">> >> \o write_function_definition(modified_func)
    \o << <<"text", "Changes">> >>
    \o ChangeLines(function_compare_keys, "function_text", baseline_func, modified_func)

\* ScalarFiles with the four files opened whatever the key sets hold
ScalarFiles_Unconditional(prefix, new, dropped, modified) ==
    {prefix \o "_summary.log", prefix \o "_new.log", prefix \o "_dropped.log",
     prefix \o "_modified.log"}

\* the files a scalar compare_* method opens: the summary always, each other
\* file only when its set is not empty
ScalarFiles(prefix, new, dropped, modified) ==
    {prefix \o "_summary.log"}
    \cup (IF new # {} THEN {prefix \o "_new.log"} ELSE {})
    \cup (IF dropped # {} THEN {prefix \o "_dropped.log"} ELSE {})
    \cup (IF modified # {} THEN {prefix \o "_modified.log"} ELSE {})

\* self._write_<kind>_definition and self._write_<kind>_differences, as the
\* compare_* method of the kind calls them
WriteDefinition(prefix, rec) ==
    CASE prefix = "procedures" -> write_proc_definition(rec)
      [] prefix = "triggers" -> write_trigger_definition(rec)
      [] prefix = "functions" -> write_function_definition(rec)

WriteDifferences(prefix, baseline_rec, modified_rec) ==
    CASE prefix = "procedures" -> write_proc_differences(baseline_rec, modified_rec)
      [] prefix = "triggers" -> write_trigger_differences(baseline_rec, modified_rec)
      [] prefix = "functions" -> write_function_differences(baseline_rec, modified_rec)

\* the lines a scalar compare_* method writes, file after file
ScalarReport(prefix, baseline, modified, new, dropped, changed) ==
    LET new_seq == sorted(new)
        dropped_seq == sorted(dropped)
        modified_seq == sorted(changed)
    IN  InFile(prefix \o "_summary.log",
            << <<"text", "Comparison Summary">>,
               <<"count", "New", Cardinality(new)>>,
               <<"count", "Dropped", Cardinality(dropped)>>,
               <<"count", "Modified", Cardinality(changed)>> >>
            \o (IF new # {} THEN << <<"section", "new">> >> ELSE <<>>)
            \o [i \in DOMAIN new_seq |-> <<"key", "new", new_seq[i]>>]
            \o (IF dropped # {} THEN << <<"section", "dropped">> >> ELSE <<>>)
            \o [i \in DOMAIN dropped_seq |-> <<"key", "dropped", dropped_seq[i]>>]
            \o (IF changed # {} THEN << <<"section", "modified">> >> ELSE <<>>)
            \o [i \in DOMAIN modified_seq |-> <<"key", "modified", modified_seq[i]>>])
        \o (IF new # {}
            THEN InFile(prefix \o "_new.log",
                    << <<"section", "new">> >>
                    \o Concat([i \in DOMAIN new_seq |->
                        << <<"key", "new", new_seq[i]>> >> \o WriteDefinition(prefix, modified[new_seq[i]])]))
            ELSE <<>>)
        \o (IF dropped # {}
            THEN InFile(prefix \o "_dropped.log",
                    << <<"section", "dropped">> >>
                    \o Concat([i \in DOMAIN dropped_seq |->
                        << <<"key", "dropped", dropped_seq[i]>> >>
                        \o WriteDefinition(prefix, baseline[dropped_seq[i]])]))
            ELSE <<>>)
        \o (IF changed # {}
            THEN InFile(prefix \o "_modified.log",
                    << <<"section", "modified">> >>
                    \o Concat([i \in DOMAIN modified_seq |->
                        << <<"key", "modified", modified_seq[i]>> >>
                        \o WriteDifferences(prefix, baseline[modified_seq[i]],
                                            modified[modified_seq[i]])]))
            ELSE <<>>)

----------------------------------------------------------------------------
(* main(): connect, the four comparisons, close *)

\* NewKeys without the subtraction of the baseline keys
NewKeys_AllModified(baseline, modified) == DOMAIN modified

\* set(modified_dict.keys()) - set(baseline_dict.keys())
NewKeys(baseline, modified) == DOMAIN modified \ DOMAIN baseline

\* DroppedKeys without the subtraction of the modified keys
DroppedKeys_AllBaseline(baseline, modified) == DOMAIN baseline

\* set(baseline_dict.keys()) - set(modified_dict.keys())
DroppedKeys(baseline, modified) == DOMAIN baseline \ DOMAIN modified

Init ==
    /\ pc = "connect"
    /\ baseline_conn = "none"
    /\ modified_conn = "none"
    /\ exc = "none"
    /\ ran = {}
    /\ kind = "none"
    /\ baseline_rows = <<>>
    /\ modified_rows = <<>>
    /\ baseline_dict = <<>>
    /\ modified_dict = <<>>
    /\ new_keys = {}
    /\ dropped_keys = {}
    /\ modified_keys = {}
    /\ files = {}
    /\ out = <<>>

\* connect with the failure of ibm_db.connect logged and not raised again
connect_NoReraise ==
    /\ pc = "connect"
    /\ \/ baseline_conn' = "open" /\ modified_conn' = "open"
       \/ baseline_conn' = "none" /\ modified_conn' = "none"
       \/ baseline_conn' = "open" /\ modified_conn' = "none"
    /\ exc' = "none"
    /\ pc' = "compare_tables"
    /\ UNCHANGED <<ran, kind, baseline_rows, modified_rows, baseline_dict, modified_dict, new_keys, dropped_keys,
                   modified_keys, files, out>>

\* Db2Comparator.connect: the baseline connection is opened first; a failure
\* of either ibm_db.connect is logged and raised again
connect ==
    /\ pc = "connect"
    /\ \/ /\ baseline_conn' = "open"
          /\ modified_conn' = "open"
          /\ exc' = "none"
          /\ pc' = "compare_tables"
       \/ /\ baseline_conn' = "none"
          /\ modified_conn' = "none"
          /\ exc' = "ConnectError"
          /\ pc' = "close"
       \/ /\ baseline_conn' = "open"
          /\ modified_conn' = "none"
          /\ exc' = "ConnectError"
          /\ pc' = "close"
    /\ UNCHANGED <<ran, kind, baseline_rows, modified_rows, baseline_dict, modified_dict, new_keys, dropped_keys,
                   modified_keys, files, out>>

\* a compare_* method whose _fetch_all raised (ibm_db.exec_immediate failed on
\* either connection, as it does on a connection that is not open): nothing
\* was grouped, compared or written
FetchFailed ==
    /\ exc' = "FetchError"
    /\ pc' = "close"
    /\ baseline_rows' = <<>>
    /\ modified_rows' = <<>>
    /\ baseline_dict' = <<>>
    /\ modified_dict' = <<>>
    /\ new_keys' = {}
    /\ dropped_keys' = {}
    /\ modified_keys' = {}
    /\ files' = {}
    /\ out' = <<>>

\* Db2Comparator.compare_tables
compare_tables ==
    /\ pc = "compare_tables"
    /\ ran' = ran \cup {"tables"}
    /\ kind' = "tables"
    /\ \/ FetchFailed
       \/ \E b_rows \in BaselineTableFetches, m_rows \in ModifiedTableFetches :
            LET b_dict == group_by_table(b_rows)
                m_dict == group_by_table(m_rows)
                new_tables == NewKeys(b_dict, m_dict)
                dropped_tables == DroppedKeys(b_dict, m_dict)
                modified_tables == find_modified_tables(b_dict, m_dict)
            IN  /\ baseline_conn = "open"
                /\ modified_conn = "open"
                /\ baseline_rows' = b_rows
                /\ modified_rows' = m_rows
                /\ baseline_dict' = b_dict
                /\ modified_dict' = m_dict
                /\ new_keys' = new_tables
                /\ dropped_keys' = dropped_tables
                /\ modified_keys' = modified_tables
                /\ files' = {"tables_diff.log"}
                /\ \E lines \in TablesReports(b_dict, m_dict, new_tables, dropped_tables,
                                              modified_tables) :
                     /\ out' = InFile("tables_diff.log", Written(lines))
                     /\ exc' = Raised(lines)
                     /\ pc' = IF Raised(lines) = "none" THEN "return" ELSE "close"
    /\ UNCHANGED <<baseline_conn, modified_conn>>

\* Db2Comparator.compare_procedures
compare_procedures ==
    /\ pc = "compare_procedures"
    /\ ran' = ran \cup {"procedures"}
    /\ kind' = "procedures"
    /\ \/ FetchFailed
       \/ \E b_rows \in BaselineProcFetches, m_rows \in ModifiedProcFetches :
            LET b_dict == group_by_proc(b_rows)
                m_dict == group_by_proc(m_rows)
                new_procs == NewKeys(b_dict, m_dict)
                dropped_procs == DroppedKeys(b_dict, m_dict)
                modified_procs == find_modified_procs(b_dict, m_dict)
            IN  /\ baseline_conn = "open"
                /\ modified_conn = "open"
                /\ baseline_rows' = b_rows
                /\ modified_rows' = m_rows
                /\ baseline_dict' = b_dict
                /\ modified_dict' = m_dict
                /\ new_keys' = new_procs
                /\ dropped_keys' = dropped_procs
                /\ modified_keys' = modified_procs
                /\ files' = ScalarFiles("procedures", new_procs, dropped_procs, modified_procs)
                /\ out' = ScalarReport("procedures", b_dict, m_dict, new_procs, dropped_procs,
                                       modified_procs)
                /\ exc' = "none"
                /\ pc' = "return"
    /\ UNCHANGED <<baseline_conn, modified_conn>>

\* Db2Comparator.compare_triggers
compare_triggers ==
    /\ pc = "compare_triggers"
    /\ ran' = ran \cup {"triggers"}
    /\ kind' = "triggers"
    /\ \/ FetchFailed
       \/ \E b_rows \in BaselineTriggerFetches, m_rows \in ModifiedTriggerFetches :
            LET b_dict == group_by_trigger(b_rows)
                m_dict == group_by_trigger(m_rows)
                new_triggers == NewKeys(b_dict, m_dict)
                dropped_triggers == DroppedKeys(b_dict, m_dict)
                modified_triggers == find_modified_triggers(b_dict, m_dict)
            IN  /\ baseline_conn = "open"
                /\ modified_conn = "open"
                /\ baseline_rows' = b_rows
                /\ modified_rows' = m_rows
                /\ baseline_dict' = b_dict
                /\ modified_dict' = m_dict
                /\ new_keys' = new_triggers
                /\ dropped_keys' = dropped_triggers
                /\ modified_keys' = modified_triggers
                /\ files' = ScalarFiles("triggers", new_triggers, dropped_triggers,
                                        modified_triggers)
                /\ out' = ScalarReport("triggers", b_dict, m_dict, new_triggers,
                                       dropped_triggers, modified_triggers)
                /\ exc' = "none"
                /\ pc' = "return"
    /\ UNCHANGED <<baseline_conn, modified_conn>>

\* Db2Comparator.compare_functions
compare_functions ==
    /\ pc = "compare_functions"
    /\ ran' = ran \cup {"functions"}
    /\ kind' = "functions"
    /\ \/ FetchFailed
       \/ \E b_rows \in BaselineFunctionFetches,
             m_rows \in ModifiedFunctionFetches :
            LET b_dict == group_by_function(b_rows)
                m_dict == group_by_function(m_rows)
                new_funcs == NewKeys(b_dict, m_dict)
                dropped_funcs == DroppedKeys(b_dict, m_dict)
                modified_funcs == find_modified_functions(b_dict, m_dict)
            IN  /\ baseline_conn = "open"
                /\ modified_conn = "open"
                /\ baseline_rows' = b_rows
                /\ modified_rows' = m_rows
                /\ baseline_dict' = b_dict
                /\ modified_dict' = m_dict
                /\ new_keys' = new_funcs
                /\ dropped_keys' = dropped_funcs
                /\ modified_keys' = modified_funcs
                /\ files' = ScalarFiles("functions", new_funcs, dropped_funcs, modified_funcs)
                /\ out' = ScalarReport("functions", b_dict, m_dict, new_funcs, dropped_funcs,
                                       modified_funcs)
                /\ exc' = "none"
                /\ pc' = "return"
    /\ UNCHANGED <<baseline_conn, modified_conn>>

\* AfterCall with the calls of compare_procedures and compare_triggers swapped
AfterCall_Swapped(k) ==
    CASE k = "tables" -> "compare_triggers"
      [] k = "triggers" -> "compare_procedures"
      [] k = "procedures" -> "compare_functions"
      [] k = "functions" -> "close"

\* the statement of main() that follows the call of a compare_* method
AfterCall(k) ==
    CASE k = "tables" -> "compare_procedures"
      [] k = "procedures" -> "compare_triggers"
      [] k = "triggers" -> "compare_functions"
      [] k = "functions" -> "close"

\* a compare_* method returns to main(): its locals cease to exist
return ==
    /\ pc = "return"
    /\ pc' = AfterCall(kind)
    /\ kind' = "none"
    /\ baseline_rows' = <<>>
    /\ modified_rows' = <<>>
    /\ baseline_dict' = <<>>
    /\ modified_dict' = <<>>
    /\ new_keys' = {}
    /\ dropped_keys' = {}
    /\ modified_keys' = {}
    /\ files' = {}
    /\ out' = <<>>
    /\ UNCHANGED <<baseline_conn, modified_conn, exc, ran>>

\* close without the call of ibm_db.close for the modified connection
close_BaselineOnly ==
    /\ pc = "close"
    /\ baseline_conn' = IF baseline_conn = "open" THEN "closed" ELSE baseline_conn
    /\ modified_conn' = modified_conn
    /\ pc' = "done"
    /\ UNCHANGED <<exc, ran, kind, baseline_rows, modified_rows, baseline_dict, modified_dict, new_keys, dropped_keys,
                   modified_keys, files, out>>

\* the finally clause of main(), Db2Comparator.close: a connection that was
\* opened is closed; an exception keeps propagating
close ==
    /\ pc = "close"
    /\ baseline_conn' = IF baseline_conn = "open" THEN "closed" ELSE baseline_conn
    /\ modified_conn' = IF modified_conn = "open" THEN "closed" ELSE modified_conn
    /\ pc' = "done"
    /\ UNCHANGED <<exc, ran, kind, baseline_rows, modified_rows, baseline_dict, modified_dict, new_keys, dropped_keys,
                   modified_keys, files, out>>

Next ==
    \/ connect
    \/ compare_tables
    \/ compare_procedures
    \/ compare_triggers
    \/ compare_functions
    \/ return
    \/ close

Spec == Init /\ [][Next]_vars

----------------------------------------------------------------------------
(* Properties *)

ScalarKinds == {"procedures", "triggers", "functions"}

\* a compare_* method has built both groupings and classified the keys
Compared == kind # "none" /\ exc # "FetchError"

CommonKeys == DOMAIN baseline_dict \cap DOMAIN modified_dict

\* the keys _find_modified_<kind> returns for a pair of groupings of the kind
FindModified(k, baseline, modified) ==
    CASE k = "tables" -> find_modified_tables(baseline, modified)
      [] k = "procedures" -> find_modified_procs(baseline, modified)
      [] k = "triggers" -> find_modified_triggers(baseline, modified)
      [] k = "functions" -> find_modified_functions(baseline, modified)

\* C1: for every kind and pair of groupings, the added set is exactly the keys
\* of the modified grouping that the baseline grouping lacks, and the removed
\* set is exactly the keys of the baseline grouping that the modified one lacks
C1_AddedRemovedExact ==
    Compared =>
        /\ new_keys = {k \in DOMAIN modified_dict : k \notin DOMAIN baseline_dict}
        /\ dropped_keys = {k \in DOMAIN baseline_dict : k \notin DOMAIN modified_dict}

C1_Witness ==
    /\ Compared
    /\ kind = "functions"
    /\ new_keys # {}
    /\ dropped_keys # {}
    /\ new_keys # DOMAIN modified_dict
    /\ dropped_keys # DOMAIN baseline_dict

\* C2: added, removed and changed are pairwise disjoint, and a key of both
\* groupings is never in added or removed
C2_Partition ==
    Compared =>
        /\ new_keys \cap dropped_keys = {}
        /\ new_keys \cap modified_keys = {}
        /\ dropped_keys \cap modified_keys = {}
        /\ \A k \in CommonKeys : k \notin new_keys /\ k \notin dropped_keys

C2_Witness ==
    /\ Compared
    /\ kind = "procedures"
    /\ new_keys # {}
    /\ dropped_keys # {}
    /\ modified_keys # {}

\* the compare fields of the scalar kinds
C3_CompareFields(k) ==
    CASE k = "procedures" ->
            {"language", "deterministic", "nullcall", "routine_text", "param_count",
             "result_sets"}
      [] k = "triggers" ->
            {"trigtime", "trigevent", "granularity", "valid", "enabled", "trigger_text",
             "tabschema", "tabname"}
      [] k = "functions" ->
            {"language", "deterministic", "nullcall", "function_text", "return_type",
             "param_count", "function_type"}

\* C3: a key of both groupings of a scalar kind is changed iff some compare
\* field of the kind has different values in its two records; a difference in
\* any other field (remarks, create_time, specificname) does not make it changed
C3_ScalarChangedIff ==
    (Compared /\ kind \in ScalarKinds) =>
        \A k \in CommonKeys :
            k \in modified_keys <=>
                \E f \in C3_CompareFields(kind) : baseline_dict[k][f] # modified_dict[k][f]

C3_Witness ==
    /\ Compared
    /\ kind = "triggers"
    /\ \E k \in CommonKeys :
        /\ k \notin modified_keys
        /\ baseline_dict[k] # modified_dict[k]

\* C4: a table of both groupings whose two column lists have different lengths
\* is changed, even when every baseline column is unchanged
C4_ColumnCountSensitive ==
    (Compared /\ kind = "tables") =>
        \A k \in CommonKeys :
            Len(baseline_dict[k]) # Len(modified_dict[k]) => k \in modified_keys

C4_Witness ==
    /\ Compared
    /\ kind = "tables"
    /\ \E k \in CommonKeys :
        /\ Len(modified_dict[k]) = Len(baseline_dict[k]) + 1
        /\ SubSeq(modified_dict[k], 1, Len(baseline_dict[k])) = baseline_dict[k]
        /\ k \in modified_keys

C5_ColumnFields ==
    {"colname", "typename", "length", "scale", "nulls", "default", "identity", "generated"}

\* a column restricted to its compare fields
C5_Compared(col) == [f \in C5_ColumnFields |-> col[f]]

\* C5: two column lists of equal length are changed iff at some index the two
\* columns differ in a compare field; so the same columns in another order
\* are changed
C5_Positional ==
    (Compared /\ kind = "tables") =>
        \A k \in CommonKeys :
            Len(baseline_dict[k]) = Len(modified_dict[k]) =>
                (k \in modified_keys <=>
                    \E i \in DOMAIN baseline_dict[k] : \E f \in C5_ColumnFields :
                        baseline_dict[k][i][f] # modified_dict[k][i][f])

C5_Witness ==
    /\ Compared
    /\ kind = "tables"
    /\ \E k \in CommonKeys :
        /\ Len(baseline_dict[k]) = Len(modified_dict[k])
        /\ {C5_Compared(baseline_dict[k][i]) : i \in DOMAIN baseline_dict[k]}
             = {C5_Compared(modified_dict[k][i]) : i \in DOMAIN modified_dict[k]}
        /\ \E i \in DOMAIN baseline_dict[k] :
             C5_Compared(baseline_dict[k][i]) # C5_Compared(modified_dict[k][i])
        /\ k \in modified_keys

\* C6: comparing the two groupings the other way round swaps added and
\* removed and gives the same changed keys
C6_Symmetry ==
    Compared =>
        /\ NewKeys(modified_dict, baseline_dict) = dropped_keys
        /\ DroppedKeys(modified_dict, baseline_dict) = new_keys
        /\ FindModified(kind, modified_dict, baseline_dict) = modified_keys

C6_Witness ==
    /\ Compared
    /\ kind = "tables"
    /\ new_keys # {}
    /\ dropped_keys # {}
    /\ \E k \in modified_keys : Len(baseline_dict[k]) # Len(modified_dict[k])

\* C7: a grouping compared with an identical copy of itself has no added, no
\* removed and no changed key, also when its records hold None
C7_Emptiness ==
    Compared =>
        /\ baseline_dict = modified_dict =>
             new_keys = {} /\ dropped_keys = {} /\ modified_keys = {}
        /\ \A g \in {baseline_dict, modified_dict} :
             /\ NewKeys(g, g) = {}
             /\ DroppedKeys(g, g) = {}
             /\ FindModified(kind, g, g) = {}

C7_Witness ==
    /\ Compared
    /\ kind = "tables"
    /\ baseline_dict = modified_dict
    /\ \E k \in DOMAIN baseline_dict : \E i \in DOMAIN baseline_dict[k] :
         baseline_dict[k][i]["default"] = None
    /\ new_keys = {}
    /\ dropped_keys = {}
    /\ modified_keys = {}

\* the key of a fetched row of the kind
C8_Key(k, row) ==
    CASE k = "procedures" -> row["procschema"] \o <<Dot>> \o row["procname"]
      [] k = "triggers" -> row["trigschema"] \o <<Dot>> \o row["trigname"]
      [] k = "functions" -> row["funcschema"] \o <<Dot>> \o row["funcname"]

C8_HasDuplicateKey(k, rows) ==
    \E i, j \in DOMAIN rows : i # j /\ C8_Key(k, rows[i]) = C8_Key(k, rows[j])

\* C8: grouping the rows of a scalar kind fails with DuplicateKeyError when two
\* rows have the same key; no grouping is produced from such rows
C8_DuplicateKeyFails ==
    (kind \in ScalarKinds /\ exc # "FetchError"
        /\ (C8_HasDuplicateKey(kind, baseline_rows) \/ C8_HasDuplicateKey(kind, modified_rows)))
    => exc = "DuplicateKeyError"

\* C9: an error in one comparison does not keep main() from running the
\* comparisons of the remaining kinds
C9_RemainingKindsRun ==
    (pc = "done" /\ "tables" \in ran) =>
        ran = {"tables", "procedures", "triggers", "functions"}

\* the lines of out with the given tag, between the key lines around position i
C10_SameSection(i, j) ==
    /\ i < j
    /\ out[i][1] = out[j][1]
    /\ \A m \in i..j : out[m][2][1] \notin {"key", "section"} \/ m = i

\* C10: the keys of each category are written in ascending order, and the
\* added, removed and changed columns of a modified table are written in
\* ascending order of column name
C10_SortedOutput ==
    /\ \A i, j \in DOMAIN out :
        (i < j /\ out[i][1] = out[j][1] /\ out[i][2][1] = "key" /\ out[j][2][1] = "key"
            /\ out[i][2][2] = out[j][2][2])
        => StrLess(out[i][2][3], out[j][2][3])
    /\ \A i, j \in DOMAIN out :
        (C10_SameSection(i, j) /\ out[i][2][1] \in {"+", "-", "*"} /\ out[j][2][1] = out[i][2][1])
        => StrLess(out[i][2][2], out[j][2][2])

\* the reports a repetition of the comparison of the kind can write for the
\* groupings and key sets of the state
C11_Repetitions ==
    IF kind = "tables"
    THEN {InFile("tables_diff.log", Written(lines)) :
            lines \in TablesReports(baseline_dict, modified_dict,
                                    NewKeys(baseline_dict, modified_dict),
                                    DroppedKeys(baseline_dict, modified_dict),
                                    FindModified(kind, baseline_dict, modified_dict))}
    ELSE {ScalarReport(kind, baseline_dict, modified_dict,
                       NewKeys(baseline_dict, modified_dict),
                       DroppedKeys(baseline_dict, modified_dict),
                       FindModified(kind, baseline_dict, modified_dict))}

\* C11: repeating a comparison on the same pair of groupings gives the same
\* added, removed and changed key sets and the same report, line for line
C11_Deterministic ==
    Compared =>
        /\ new_keys = NewKeys(baseline_dict, modified_dict)
        /\ dropped_keys = DroppedKeys(baseline_dict, modified_dict)
        /\ modified_keys = FindModified(kind, baseline_dict, modified_dict)
        /\ \A report \in C11_Repetitions : report = out

\* the definition-text field of a scalar kind
C12_TextField(k) ==
    CASE k = "procedures" -> "routine_text"
      [] k = "triggers" -> "trigger_text"
      [] k = "functions" -> "function_text"

\* line j of out belongs to the section of key k in the modified file of the kind
C12_InSection(k, j) ==
    \E i \in DOMAIN out :
        /\ j \in DOMAIN out
        /\ i < j
        /\ out[i] = <<kind \o "_modified.log", <<"key", "modified", k>>>>
        /\ \A m \in (i + 1)..j : out[m][1] = out[i][1] /\ out[m][2][1] # "key"

\* the section of key k has a line with the given tag for field f
C12_HasLine(k, tag, f) ==
    \E j \in DOMAIN out : C12_InSection(k, j) /\ out[j][2][1] = tag /\ out[j][2][2] = f

\* the section of key k has the From line and, right after it, the To line of field f
C12_HasFromTo(k, f) ==
    \E j \in DOMAIN out :
        /\ C12_InSection(k, j)
        /\ C12_InSection(k, j + 1)
        /\ out[j][2][1] = "from" /\ out[j][2][2] = f
        /\ out[j][2][3] = Format(baseline_dict[k][f])
        /\ out[j + 1][2][1] = "to" /\ out[j + 1][2][2] = f
        /\ out[j + 1][2][3] = Format(modified_dict[k][f])

\* C12: in the report of a changed procedure, trigger or function a differing
\* definition text is written as a change marker and never as a From or To
\* line; every other differing compare field is written with its From and To
\* values; a field that does not differ is not written as changed; objects
\* that differ in the definition text are changed
C12_TextMarkerOnly ==
    (kind \in ScalarKinds /\ Compared) =>
        \A k \in CommonKeys :
            /\ baseline_dict[k][C12_TextField(kind)] # modified_dict[k][C12_TextField(kind)]
                => k \in modified_keys
            /\ k \in modified_keys =>
                \A f \in C3_CompareFields(kind) :
                    IF baseline_dict[k][f] = modified_dict[k][f]
                    THEN ~C12_HasLine(k, "changed", f)
                    ELSE IF f = C12_TextField(kind)
                    THEN /\ C12_HasLine(k, "changed", f)
                         /\ C12_HasLine(k, "see", f)
                         /\ ~C12_HasLine(k, "from", f)
                         /\ ~C12_HasLine(k, "to", f)
                    ELSE /\ C12_HasLine(k, "changed", f)
                         /\ C12_HasFromTo(k, f)
                         /\ ~C12_HasLine(k, "see", f)

\* two procedures that differ in the routine text alone
C12_Witness ==
    /\ kind = "procedures"
    /\ Compared
    /\ \E k \in modified_keys :
        /\ baseline_dict[k]["routine_text"] # modified_dict[k]["routine_text"]
        /\ \A f \in C3_CompareFields(kind) \ {"routine_text"} :
                baseline_dict[k][f] = modified_dict[k][f]
        /\ C12_HasLine(k, "see", "routine_text")

\* line j of out belongs to the section of the modified table k
C13_InSection(k, j) ==
    \E i \in DOMAIN out :
        /\ j \in DOMAIN out
        /\ i < j
        /\ out[i][2][1] = "key" /\ out[i][2][2] = "modified" /\ out[i][2][3] = k
        /\ \A m \in (i + 1)..j : out[m][2][1] # "key"

\* the "Changes" part of the section of table k was written
C13_DeltaWritten(k) ==
    \E j \in DOMAIN out :
        C13_InSection(k, j) /\ out[j][2][1] = "text" /\ out[j][2][2] = "Changes"

C13_Names(cols) == {Format(cols[i]["colname"]) : i \in DOMAIN cols}

\* the pairs of a baseline and a modified column of table k that have the name
\* n and differ in the field f
C13_Differing(k, n, f) ==
    {p \in (DOMAIN baseline_dict[k]) \X (DOMAIN modified_dict[k]) :
        /\ Format(baseline_dict[k][p[1]]["colname"]) = n
        /\ Format(modified_dict[k][p[2]]["colname"]) = n
        /\ baseline_dict[k][p[1]][f] # modified_dict[k][p[2]][f]}

\* the section of table k lists the column name n under the mark "+", "-" or "*"
C13_Listed(k, mark, n) ==
    \E j \in DOMAIN out : C13_InSection(k, j) /\ out[j][2][1] = mark /\ out[j][2][2] = n

\* the positions of the 'field: baseline -> modified' entries of field f that
\* the section of table k holds under the changed column n
C13_Entries(k, n, f) ==
    {j \in DOMAIN out :
        /\ C13_InSection(k, j)
        /\ out[j][2][1] = "change" /\ out[j][2][2] = f
        /\ \E i \in 1..(j - 1) :
            /\ out[i][2][1] = "*" /\ out[i][2][2] = n
            /\ \A m \in (i + 1)..j : out[m][2][1] = "change"}

\* C13: the column delta written for a modified table lists a name as added
\* iff it is a name of the modified column list only, as removed iff it is a
\* name of the baseline column list only, and as changed iff it is a name of
\* both and a baseline and a modified column of that name differ in a column
\* compare field; under a changed column there is exactly one entry per
\* differing field, with the baseline and the modified value, and none for a
\* field that does not differ
C13_ColumnDelta ==
    (kind = "tables" /\ Compared) =>
        \A k \in modified_keys :
            C13_DeltaWritten(k) =>
            LET b_names == C13_Names(baseline_dict[k])
                m_names == C13_Names(modified_dict[k])
            IN  \A n \in b_names \cup m_names :
                    /\ C13_Listed(k, "+", n) <=> n \in m_names \ b_names
                    /\ C13_Listed(k, "-", n) <=> n \in b_names \ m_names
                    /\ C13_Listed(k, "*", n) <=>
                            \E f \in C5_ColumnFields : C13_Differing(k, n, f) # {}
                    /\ \A f \in C5_ColumnFields :
                        IF C13_Differing(k, n, f) # {}
                        THEN /\ Cardinality(C13_Entries(k, n, f)) = 1
                             /\ \A j \in C13_Entries(k, n, f) :
                                \E p \in C13_Differing(k, n, f) :
                                    /\ out[j][2][3] = Format(baseline_dict[k][p[1]][f])
                                    /\ out[j][2][4] = Format(modified_dict[k][p[2]][f])
                        ELSE C13_Entries(k, n, f) = {}

\* the records of the fetched rows that have the key k, in the order of the rows
C14_Subsequence(rows, k) == SelectSeq(rows, LAMBDA row : TableKey(row) = k)

\* C14: the table grouping has exactly the keys of the fetched rows, and the
\* list of a key is the subsequence of the rows with that key, in the order
\* in which the rows were fetched
C14_GroupedInOrder ==
    (kind = "tables" /\ Compared) =>
        /\ DOMAIN baseline_dict = {TableKey(baseline_rows[i]) : i \in DOMAIN baseline_rows}
        /\ DOMAIN modified_dict = {TableKey(modified_rows[i]) : i \in DOMAIN modified_rows}
        /\ \A k \in DOMAIN baseline_dict : baseline_dict[k] = C14_Subsequence(baseline_rows, k)
        /\ \A k \in DOMAIN modified_dict : modified_dict[k] = C14_Subsequence(modified_rows, k)

\* a key with two records that differ, a record of another key fetched
\* between them
C14_Witness ==
    /\ kind = "tables"
    /\ Compared
    /\ \E i, j, m \in DOMAIN modified_rows :
        /\ i < m /\ m < j
        /\ TableKey(modified_rows[i]) = TableKey(modified_rows[j])
        /\ TableKey(modified_rows[m]) # TableKey(modified_rows[i])
        /\ modified_rows[i] # modified_rows[j]
        /\ modified_dict[TableKey(modified_rows[i])] = <<modified_rows[i], modified_rows[j]>>

\* C16: a comparison that has fetched its rows completes whatever the values
\* of the fields are, NULL in length, scale, default or definition text
\* included: it raises no exception and main() goes on
C16_NeverFailsOnData ==
    Compared => exc = "none" /\ pc = "return"

\* the files that hold a line of the report
C17_FilesWritten == {out[i][1] : i \in DOMAIN out}

C18_Keys(rows) ==
    {IF kind = "tables" THEN TableKey(rows[i]) ELSE C8_Key(kind, rows[i]) : i \in DOMAIN rows}

\* C18: after a failed connect no compare_* method runs; a compare_* method
\* runs only with both connections opened; a comparison whose fetch failed
\* has grouped, classified and written nothing; and a comparison that has
\* classified a key or written a line did so on groupings that hold every
\* key of the rows fetched
C18_FailurePreventsCompare ==
    /\ exc = "ConnectError" => ran = {} /\ kind = "none" /\ files = {} /\ out = <<>>
    /\ ran # {} => baseline_conn # "none" /\ modified_conn # "none"
    /\ (ran # {} /\ pc # "done") => baseline_conn = "open" /\ modified_conn = "open"
    /\ exc = "FetchError" =>
        /\ baseline_dict = <<>> /\ modified_dict = <<>>
        /\ new_keys = {} /\ dropped_keys = {} /\ modified_keys = {}
        /\ files = {} /\ out = <<>>
    /\ (new_keys # {} \/ dropped_keys # {} \/ modified_keys # {} \/ out # <<>>) =>
        /\ exc # "FetchError"
        /\ DOMAIN baseline_dict = C18_Keys(baseline_rows)
        /\ DOMAIN modified_dict = C18_Keys(modified_rows)

\* the connection to the modified database failed: main() ended with the
\* baseline connection closed and no comparison run
C18_Witness ==
    /\ pc = "done"
    /\ exc = "ConnectError"
    /\ baseline_conn = "closed"
    /\ modified_conn = "none"
    /\ ran = {}

\* the order of the four calls
C19_Order == <<"tables", "procedures", "triggers", "functions">>

\* the kinds whose comparison was called are the first n of the order
C19_RanPrefix(n) == ran = {C19_Order[i] : i \in 1..n}

\* what holds in every state of a run
C19_State ==
    /\ \E n \in 0..4 : C19_RanPrefix(n) /\ (kind # "none" => n > 0 /\ kind = C19_Order[n])
    /\ (pc = "done" /\ exc = "none") => C19_RanPrefix(4)
    /\ Compared =>
        /\ DOMAIN baseline_dict = C18_Keys(baseline_rows)
        /\ DOMAIN modified_dict = C18_Keys(modified_rows)
        /\ new_keys = C18_Keys(modified_rows) \ C18_Keys(baseline_rows)
        /\ dropped_keys = C18_Keys(baseline_rows) \ C18_Keys(modified_rows)
        /\ modified_keys \subseteq C18_Keys(baseline_rows) \cap C18_Keys(modified_rows)

\* what holds of every step that calls a compare_* method
C19_Call ==
    (kind' # kind /\ kind' # "none") =>
        /\ kind = "none"
        /\ kind' \notin ran
        /\ ran' = ran \cup {kind'}
        /\ baseline_conn = "open" /\ modified_conn = "open"
        /\ UNCHANGED <<baseline_conn, modified_conn>>

\* C19: the comparisons are called in the order tables, procedures, triggers,
\* functions, each at most once, each with the two connections that connect
\* opened, still open and the same; a run that ends without an exception has
\* called all four; the keys a comparison classifies are classified against
\* groupings that hold every key of the rows fetched from both databases
C19_Sequential == [](C19_State) /\ [][C19_Call]_vars

\* main() ended without an exception after the four comparisons
C19_Witness ==
    /\ pc = "done"
    /\ exc = "none"
    /\ C19_RanPrefix(4)
    /\ baseline_conn = "closed"
    /\ modified_conn = "closed"

\* what holds when main() has ended, and of a program that has not ended
C20_State ==
    /\ pc = "done" =>
        /\ baseline_conn # "open" /\ modified_conn # "open"
        /\ exc # "ConnectError" => baseline_conn = "closed" /\ modified_conn = "closed"
        /\ exc = "ConnectError" => modified_conn = "none"
    /\ pc # "done" => baseline_conn # "closed" /\ modified_conn # "closed"
    /\ pc # "done" => ENABLED Next

\* what holds of every step: main() ends by the step of close and by no other;
\* only connect opens a connection; a connection is closed only by close, and
\* only if it was open
C20_Step ==
    /\ (pc # "done" /\ pc' = "done") => pc = "close"
    /\ (baseline_conn # "open" /\ baseline_conn' = "open") => pc = "connect"
    /\ (modified_conn # "open" /\ modified_conn' = "open") => pc = "connect"
    /\ baseline_conn' = "closed" => baseline_conn \in {"open", "closed"} /\ pc \in {"close", "done"}
    /\ modified_conn' = "closed" => modified_conn \in {"open", "closed"} /\ pc \in {"close", "done"}

\* C20: whether connect succeeds, fails on the baseline or on the modified
\* database, or a comparison raises, main() does not end before close has run,
\* and it can always go on until then; when it has ended, every connection
\* that was opened is closed and a connection that was never opened was not
\* closed
C20_CloseAlways == [](C20_State) /\ [][C20_Step]_vars

\* main() ended after a comparison raised: both connections are closed
C20_Witness ==
    /\ pc = "done"
    /\ exc = "TypeError"
    /\ baseline_conn = "closed"
    /\ modified_conn = "closed"

\* the name-keyed column delta that _write_table_differences_detail computes
\* for the two column lists of key k has a column added, removed or changed
C21_DeltaNonEmpty(k) ==
    \/ AddedCols(baseline_dict[k], modified_dict[k]) # {}
    \/ RemovedCols(baseline_dict[k], modified_dict[k]) # {}
    \/ \E n \in CommonCols(baseline_dict[k], modified_dict[k]) :
            ColumnChanges(ColsDict(baseline_dict[k])[n], ColsDict(modified_dict[k])[n]) # <<>>

\* C21: a table of both groupings whose name-keyed column delta has a column
\* added, removed or changed is classified as modified by the positional
\* check
C21_DeltaImpliesModified ==
    (kind = "tables" /\ Compared) =>
        \A k \in CommonKeys : C21_DeltaNonEmpty(k) => k \in modified_keys

\* a table whose two column lists have the same names in the same order and
\* one column changed by name
C21_Witness ==
    /\ kind = "tables"
    /\ Compared
    /\ \E k \in modified_keys :
        /\ Len(baseline_dict[k]) = Len(modified_dict[k])
        /\ \A i \in DOMAIN baseline_dict[k] :
                baseline_dict[k][i]["colname"] = modified_dict[k][i]["colname"]
        /\ AddedCols(baseline_dict[k], modified_dict[k]) = {}
        /\ RemovedCols(baseline_dict[k], modified_dict[k]) = {}
        /\ C21_DeltaNonEmpty(k)

\* the key the grouping of the kind being compared gives a fetched row
C22_Key(row) == IF kind = "tables" THEN TableKey(row) ELSE C8_Key(kind, row)

\* the schema and the name of the object a fetched row belongs to
C22_Pair(row) ==
    CASE kind = "tables" -> <<row["tabschema"], row["tabname"]>>
      [] kind = "procedures" -> <<row["procschema"], row["procname"]>>
      [] kind = "triggers" -> <<row["trigschema"], row["trigname"]>>
      [] kind = "functions" -> <<row["funcschema"], row["funcname"]>>

\* no two of the rows have one key and different (schema, name) pairs
C22_KeyNamesOneObject(rows) ==
    \A i, j \in DOMAIN rows :
        C22_Key(rows[i]) = C22_Key(rows[j]) => C22_Pair(rows[i]) = C22_Pair(rows[j])

\* C22: rows of objects with different (schema, name) pairs never get the same
\* key, so that no key of a grouping stands for two different objects
C22_UniqueKey ==
    Compared => C22_KeyNamesOneObject(baseline_rows) /\ C22_KeyNamesOneObject(modified_rows)

====
